---------------------------- MODULE Spec2Model ----------------------------
(***************************************************************************)
(* Model of the OCSD protocol codec (src/src/protocol): the Celsius value, *)
(* the three fixed-layout records (system header, device header, sensor),  *)
(* the aggregate device, and their checksums.                              *)
(*                                                                         *)
(* Integers keep the width they have in the source.  A u8 or u16 is a      *)
(* natural number.  A u32 does not fit the model checker's integers, so it *)
(* is a record [lo, hi] of two 16-bit limbs (value = hi * 2^16 + lo) and   *)
(* its arithmetic is done limb by limb with carry and borrow.              *)
(*                                                                         *)
(* Every operation of the codec is a pure function.  A behaviour is one    *)
(* call: the initial state holds the call (op, arg) with pc = "call", the  *)
(* action of that operation applies it and leaves its outcome in ret with  *)
(* pc = "done".  A call ends Ok(v), Err(e) (a returned error) or           *)
(* Panicked(msg).                                                          *)
(*                                                                         *)
(* overflow_checks is the build profile: Rust's `+` on integers panics on  *)
(* overflow when overflow checks are compiled in (the default of a debug   *)
(* build and of `cargo test`) and wraps otherwise (the default of a        *)
(* release build).  Both builds are outcomes the program can have.         *)
(*                                                                         *)
(* The client (src/src/client/mod.rs) is a state machine over the memory   *)
(* the devmem crate maps: context is the OcsdContext (once constructed),   *)
(* memory the bytes of the regions it maps, opens the calls made to        *)
(* Mapping::new so far, in order, and init_header the header that          *)
(* OcsdContext::new decoded.  The host is the 64-bit little-endian Linux   *)
(* server the base addresses belong to: a usize holds 64 bits.             *)
(***************************************************************************)
EXTENDS Integers, Sequences, FiniteSets, TLC

VARIABLES pc, op, arg, ret, overflow_checks, context, memory, opens, init_header

vars == <<pc, op, arg, ret, overflow_checks, context, memory, opens, init_header>>

---------------------------------------------------------------------------
(* Outcomes of a call *)

Ok(v) == [tag |-> "Ok", val |-> v]

Err(e) == [tag |-> "Err", err |-> e]

Panicked(msg) == [tag |-> "Panic", msg |-> msg]

IsOk(r) == r.tag = "Ok"

---------------------------------------------------------------------------
(* Fixed-width integers *)

\* Number of samples taken at the top end of each sampled integer range.
TopN == 1

\* The most device slots a system header of the client's runs announces.
MaxCards == 2

Byte == 0..255

\* A limb of a u32: 16 bits.
Limb == 2 ^ 16

U16Max == Limb - 1

U32(lo, hi) == [lo |-> lo, hi |-> hi]

U32Zero == U32(0, 0)

\* `x as u32` / `x.into()` of a u8 or u16: zero extension.
ZeroExtend(n) == U32(n, 0)

\* `(x as u32) << 16` of a u16 x.
Shl16(n) == U32(0, n)

\* `x >> 16` of a u32, which fits a u16.
Shr16(x) == x.hi

\* `x & 0xFFFF` of a u32.
Low16(x) == x.lo

\* a + b on u32 without reduction: the wrapped value and whether it overflowed.
AddU32(a, b) ==
    LET lo == a.lo + b.lo
        hi == a.hi + b.hi + (lo \div Limb)
    IN  [val |-> U32(lo % Limb, hi % Limb), overflow |-> hi >= Limb]

\* u32::wrapping_sub(a, b)
wrapping_sub(a, b) ==
    LET lo == a.lo - b.lo
        borrow == IF lo < 0 THEN 1 ELSE 0
        hi == a.hi - b.hi - borrow
    IN  U32(lo % Limb, hi % Limb)

\* Little-endian bytes of a u16 and of a u32 (the in-memory form on the
\* little-endian hosts the layout is written for), and back.
LeBytes16(n) == <<n % 256, n \div 256>>

LeBytes32(x) == LeBytes16(x.lo) \o LeBytes16(x.hi)

FromLe16(b) == b[1] + 256 * b[2]

FromLe32(b) == U32(FromLe16(SubSeq(b, 1, 2)), FromLe16(SubSeq(b, 3, 4)))

---------------------------------------------------------------------------
(* Celsius (src/src/protocol/temperature.rs) *)

OFFSET == 0

I8Min == -(2 ^ 7)

I8Max == 2 ^ 7 - 1

I16Min == -(2 ^ 15)

I16Max == 2 ^ 15 - 1

\* A Celsius is its private field `value: i8`, an integer of I8Min..I8Max.

\* `value.try_into()` of an i16 into an i8.
TryIntoI8(v) == IF I8Min <= v /\ v <= I8Max THEN Ok(v) ELSE Err("TryFromIntError")

\* Mutant: the range test of an unsigned byte.
Celsius_new_unsigned(degrees) ==
    LET value == degrees + OFFSET
    IN  IF 0 <= value /\ value <= 255 THEN Ok(value) ELSE Err("TempOutOfRange")

\* Celsius::new.  degrees + OFFSET is an i16 addition; with OFFSET = 0 it
\* cannot overflow.
Celsius_new(degrees) ==
    LET value == degrees + OFFSET
        conv == TryIntoI8(value)
    IN  IF IsOk(conv) THEN Ok(conv.val) ELSE Err("TempOutOfRange")

\* Celsius::raw_value: `self.value as u8`.
Celsius_raw_value(value) == IF value < 0 THEN value + 256 ELSE value

\* Celsius::degrees
Celsius_degrees(value) == value - OFFSET

\* Mutant: the byte taken as unsigned.
Celsius_from_raw_unsigned(byte) == byte

\* Celsius::from_raw: `value as i8`.
Celsius_from_raw(byte) == IF byte >= 128 THEN byte - 256 ELSE byte

---------------------------------------------------------------------------
(* #[repr(C)] plain-data structs and bytemuck (src/src/protocol/data.rs)    *)
(*                                                                         *)
(* A struct is its layout: the sequence of its fields in declaration       *)
(* order, each with its type.  A value of the struct is a record from the  *)
(* field names to the field values.                                        *)

\* kind: "u8", "u16", "u32", "u8s" ([u8; n]) or "u32s" ([u32; n]).
Field(name, kind, n) == [name |-> name, kind |-> kind, n |-> n]

FieldSize(f) ==
    CASE f.kind = "u8" -> 1
      [] f.kind = "u16" -> 2
      [] f.kind = "u32" -> 4
      [] f.kind = "u8s" -> f.n
      [] f.kind = "u32s" -> 4 * f.n

FieldAlign(f) ==
    CASE f.kind \in {"u8", "u8s"} -> 1
      [] f.kind = "u16" -> 2
      [] f.kind \in {"u32", "u32s"} -> 4

AlignUp(offset, align) == ((offset + align - 1) \div align) * align

\* repr(C): each field at the next offset that suits its alignment.
RECURSIVE FieldOffset(_, _)
FieldOffset(layout, k) ==
    IF k = 1 THEN 0
    ELSE AlignUp(FieldOffset(layout, k - 1) + FieldSize(layout[k - 1]),
                 FieldAlign(layout[k]))

StructAlign(layout) ==
    CHOOSE a \in {FieldAlign(layout[k]) : k \in DOMAIN layout} :
        \A k \in DOMAIN layout : FieldAlign(layout[k]) <= a

\* std::mem::size_of of the struct.
size_of(layout) ==
    LET n == Len(layout)
    IN  AlignUp(FieldOffset(layout, n) + FieldSize(layout[n]), StructAlign(layout))

RECURSIVE Flatten(_)
Flatten(seqs) == IF seqs = <<>> THEN <<>> ELSE Head(seqs) \o Flatten(Tail(seqs))

FieldBytes(f, v) ==
    CASE f.kind = "u8" -> <<v>>
      [] f.kind = "u16" -> LeBytes16(v)
      [] f.kind = "u32" -> LeBytes32(v)
      [] f.kind = "u8s" -> v
      [] f.kind = "u32s" -> Flatten([k \in 1..f.n |-> LeBytes32(v[k])])

FieldValue(f, b) ==
    CASE f.kind = "u8" -> b[1]
      [] f.kind = "u16" -> FromLe16(b)
      [] f.kind = "u32" -> FromLe32(b)
      [] f.kind = "u8s" -> b
      [] f.kind = "u32s" -> [k \in 1..f.n |-> FromLe32(SubSeq(b, 4 * k - 3, 4 * k))]

FieldDefault(f) ==
    CASE f.kind \in {"u8", "u16"} -> 0
      [] f.kind = "u32" -> U32Zero
      [] f.kind = "u8s" -> [k \in 1..f.n |-> 0]
      [] f.kind = "u32s" -> [k \in 1..f.n |-> U32Zero]

FieldNames(layout) == {layout[k].name : k \in DOMAIN layout}

FieldIndex(layout, name) == CHOOSE k \in DOMAIN layout : layout[k].name = name

\* #[derive(Default)]
DefaultData(layout) ==
    [name \in FieldNames(layout) |->
        FieldDefault(layout[FieldIndex(layout, name)])]

\* bytemuck::bytes_of(&data).to_vec(): the struct's memory.  The derives
\* of NoUninit compile only for a struct without implicit padding, so the
\* memory is the fields' bytes one after the other.
bytes_of(layout, data) ==
    Flatten([k \in DOMAIN layout |-> FieldBytes(layout[k], data[layout[k].name])])

\* *bytemuck::from_bytes(&bytes) of a slice that starts at the address at:
\* panics unless the slice has the struct's size, and then unless its
\* address is a multiple of the struct's alignment.
from_bytes_at(layout, bytes, at) ==
    IF Len(bytes) # size_of(layout)
    THEN Panicked("from_bytes: SizeMismatch")
    ELSE IF at % StructAlign(layout) # 0
    THEN Panicked("from_bytes: TargetAlignmentGreaterAndInputNotAligned")
    ELSE Ok([name \in FieldNames(layout) |->
                LET k == FieldIndex(layout, name)
                    at_field == FieldOffset(layout, k)
                IN  FieldValue(layout[k],
                               SubSeq(bytes, at_field + 1,
                                      at_field + FieldSize(layout[k])))])

\* *bytemuck::from_bytes(&bytes) of a slice that starts where the
\* allocator has put a Vec<u8>, or 64, 96 or 128 bytes further: an
\* address that is a multiple of the alignment of every struct here.
from_bytes(layout, bytes) == from_bytes_at(layout, bytes, 0)

\* struct OcsdHeaderData
OcsdHeaderData ==
    << Field("ocsd_version", "u8", 1),
       Field("_ocsd_version_padding", "u8s", 3),
       Field("buffer_size", "u16", 1),
       Field("_buffer_size_padding", "u8s", 2),
       Field("max_option_cards", "u8", 1),
       Field("_max_option_cards_padding", "u8s", 3),
       Field("one_option_card_size", "u8", 1),
       Field("_one_option_card_size_padding", "u8s", 3),
       Field("buffer_start_address", "u32", 1),
       Field("_padding_0", "u32s", 3),
       Field("update_interval", "u8", 1),
       Field("_update_interval_padding", "u8s", 3),
       Field("_padding_1", "u32s", 5),
       Field("buffers_in_use", "u8", 1),
       Field("_buffers_in_use_padding", "u8s", 3),
       Field("checksum", "u32", 1) >>

\* Mutant: buffers_in_use left out of the sum.
OcsdHeaderData_checksum_short(d) ==
    wrapping_sub(wrapping_sub(wrapping_sub(wrapping_sub(wrapping_sub(wrapping_sub(
        U32Zero, ZeroExtend(d.ocsd_version)),
        ZeroExtend(d.buffer_size)),
        ZeroExtend(d.max_option_cards)),
        ZeroExtend(d.one_option_card_size)),
        d.buffer_start_address),
        ZeroExtend(d.update_interval))

\* OcsdHeaderData::checksum
OcsdHeaderData_checksum(d) ==
    wrapping_sub(wrapping_sub(wrapping_sub(wrapping_sub(wrapping_sub(wrapping_sub(
    wrapping_sub(
        U32Zero, ZeroExtend(d.ocsd_version)),
        ZeroExtend(d.buffer_size)),
        ZeroExtend(d.max_option_cards)),
        ZeroExtend(d.one_option_card_size)),
        d.buffer_start_address),
        ZeroExtend(d.update_interval)),
        ZeroExtend(d.buffers_in_use))

\* OcsdHeaderData::new
OcsdHeaderData_new(ocsd_version, buffer_size, max_option_cards, one_option_card_size, buffer_start_address, update_interval, buffers_in_use) ==
    LET constructed ==
            [DefaultData(OcsdHeaderData) EXCEPT
                !.ocsd_version = ocsd_version,
                !.buffer_size = buffer_size,
                !.max_option_cards = max_option_cards,
                !.one_option_card_size = one_option_card_size,
                !.buffer_start_address = buffer_start_address,
                !.update_interval = update_interval,
                !.buffers_in_use = buffers_in_use]
    IN  [constructed EXCEPT !.checksum = OcsdHeaderData_checksum(constructed)]

\* Mutant: a reserved array of 6 words, which makes the struct 52 bytes.
OcsdDeviceHeaderData_short ==
    << Field("version", "u8", 1),
       Field("_version_padding", "u8s", 3),
       Field("pci_bus", "u8", 1),
       Field("_pci_bus_padding", "u8s", 3),
       Field("pci_device", "u8", 1),
       Field("_pci_device_padding", "u8s", 3),
       Field("_unknown_1", "u32", 1),
       Field("_unknown_2", "u32", 1),
       Field("flags_caps", "u32", 1),
       Field("_unknown_3", "u32s", 6),
       Field("checksum", "u32", 1) >>

\* struct OcsdDeviceHeaderData
OcsdDeviceHeaderData ==
    << Field("version", "u8", 1),
       Field("_version_padding", "u8s", 3),
       Field("pci_bus", "u8", 1),
       Field("_pci_bus_padding", "u8s", 3),
       Field("pci_device", "u8", 1),
       Field("_pci_device_padding", "u8s", 3),
       Field("_unknown_1", "u32", 1),
       Field("_unknown_2", "u32", 1),
       Field("flags_caps", "u32", 1),
       Field("_unknown_3", "u32s", 9),
       Field("checksum", "u32", 1) >>

\* a - w[1] - ... - w[n], each step a wrapping_sub.
RECURSIVE WrappingSubAll(_, _)
WrappingSubAll(a, w) ==
    IF w = <<>> THEN a ELSE WrappingSubAll(wrapping_sub(a, Head(w)), Tail(w))

\* Mutant: flags_caps left out of the sum.
OcsdDeviceHeaderData_checksum_noflags(d) ==
    WrappingSubAll(U32Zero,
        << ZeroExtend(d.version), ZeroExtend(d.pci_bus), ZeroExtend(d.pci_device),
           d._unknown_1, d._unknown_2 >> \o d._unknown_3)

\* OcsdDeviceHeaderData::checksum
OcsdDeviceHeaderData_checksum(d) ==
    WrappingSubAll(U32Zero,
        << ZeroExtend(d.version), ZeroExtend(d.pci_bus), ZeroExtend(d.pci_device),
           d._unknown_1, d._unknown_2, d.flags_caps >> \o d._unknown_3)

\* OcsdDeviceHeaderData::new
OcsdDeviceHeaderData_new(version, pci_bus, pci_device, flags_caps) ==
    LET created ==
            [DefaultData(OcsdDeviceHeaderData) EXCEPT
                !.version = version,
                !.pci_bus = pci_bus,
                !.pci_device = pci_device,
                !.flags_caps = flags_caps]
    IN  [created EXCEPT !.checksum = OcsdDeviceHeaderData_checksum(created)]

\* struct OcsdSensorData
OcsdSensorData ==
    << Field("sensor_type", "u8", 1),
       Field("_sensor_type_padding", "u8s", 3),
       Field("sensor_location", "u32", 1),
       Field("caution_threshold", "u8", 1),
       Field("_caution_threshold_padding", "u8s", 3),
       Field("max_continuous_threshold", "u8", 1),
       Field("_max_continuous_threshold_padding", "u8s", 3),
       Field("configuration_status", "u32", 1),
       Field("reading", "u8", 1),
       Field("_reading_padding", "u8s", 3),
       Field("update_count", "u16", 1),
       Field("_update_count_padding", "u8s", 2),
       Field("checksum", "u32", 1) >>

\* a + b on u32 as the build compiles it: a panic on overflow with overflow
\* checks, the wrapped sum without.
Plus(a, b) ==
    LET sum == AddU32(a, b)
    IN  IF sum.overflow /\ overflow_checks
        THEN Panicked("attempt to add with overflow")
        ELSE Ok(sum.val)

\* w[1] + w[2] + ... + w[n], left to right, each step a Plus.
RECURSIVE PlusAll(_, _)
PlusAll(a, w) ==
    IF w = <<>> THEN Ok(a)
    ELSE LET step == Plus(a, Head(w))
         IN  IF IsOk(step) THEN PlusAll(step.val, Tail(w)) ELSE step

\* OcsdSensorData::checksum
OcsdSensorData_checksum(d, bus) ==
    LET sum == PlusAll(ZeroExtend(d.sensor_type),
                       << d.sensor_location,
                          ZeroExtend(d.max_continuous_threshold),
                          ZeroExtend(d.caution_threshold),
                          d.configuration_status,
                          ZeroExtend(d.reading),
                          ZeroExtend(d.update_count) >>)
        withBus == Plus(sum.val, ZeroExtend(bus))
    IN  IF ~IsOk(sum) THEN sum
        ELSE IF sum.val = U32Zero THEN Ok(U32Zero)
        ELSE IF ~IsOk(withBus) THEN withBus
        ELSE Ok(wrapping_sub(U32Zero, withBus.val))

\* OcsdSensorData::new.  configuration + (status << 16) cannot overflow.
OcsdSensorData_new(sensor_type, sensor_location, caution_threshold, max_continuous_threshold, reading, configuration, status, update_count, bus) ==
    LET created ==
            [DefaultData(OcsdSensorData) EXCEPT
                !.sensor_type = sensor_type,
                !.sensor_location = sensor_location,
                !.max_continuous_threshold = max_continuous_threshold,
                !.caution_threshold = caution_threshold,
                !.configuration_status =
                    AddU32(ZeroExtend(configuration), Shl16(status)).val,
                !.reading = reading,
                !.update_count = update_count]
        checksum == OcsdSensorData_checksum(created, bus)
    IN  IF IsOk(checksum)
        THEN Ok([created EXCEPT !.checksum = checksum.val])
        ELSE checksum

\* OcsdSensorData::status: the shifted word always fits a u16.
OcsdSensorData_status(d) == Shr16(d.configuration_status)

\* OcsdSensorData::configuration
OcsdSensorData_configuration(d) == Low16(d.configuration_status)

---------------------------------------------------------------------------
(* Plain structures and their MemoryMapped impls (src/src/protocol/ocsd.rs) *)

\* Option<u8>
None == [some |-> FALSE, val |-> 0]

Some(v) == [some |-> TRUE, val |-> v]

\* OcsdSensorStatus: the struct bitmask_enum generates, a u16 of bits with
\* From<u16> and Into<u16>.
OcsdSensorStatus_from(bits) == [bits |-> bits]

OcsdSensorStatus_into(status) == status.bits

\* `as u8` / `as u32` of the enums: the discriminant.
OcsdSensorType_as_u8(t) == CASE t = "Unknown" -> 0 [] t = "Thermal" -> 1

OcsdSensorLocation_as_u32(l) ==
    CASE l = "Unknown" -> U32Zero
      [] l = "InternalToAsic" -> ZeroExtend(1)
      [] l = "OnboardOther" -> ZeroExtend(5)

OcsdVersion_as_u8(v) == CASE v = "Unknown" -> 0 [] v = "Version2" -> 2

DeviceVersion_as_u8(v) == CASE v = "Unknown" -> 0 [] v = "Version1" -> 1

\* impl From<u8> for OcsdSensorType
OcsdSensorType_from(value) == IF value = 1 THEN "Thermal" ELSE "Unknown"

\* impl From<u32> for OcsdSensorLocation
OcsdSensorLocation_from(value) ==
    CASE value = ZeroExtend(1) -> "InternalToAsic"
      [] value = ZeroExtend(5) -> "OnboardOther"
      [] OTHER -> "Unknown"

\* impl From<u8> for OcsdVersion
OcsdVersion_from(value) == IF value = 2 THEN "Version2" ELSE "Unknown"

\* impl From<u8> for DeviceVersion
DeviceVersion_from(value) == IF value = 1 THEN "Version1" ELSE "Unknown"

\* &bytes[from..to]: panics when the range leaves the slice.
Slice(bytes, from, to) ==
    IF from > to \/ to > Len(bytes)
    THEN Panicked("range end index out of range for slice")
    ELSE Ok(SubSeq(bytes, from + 1, to))

\* OcsdHeader::to_bytes
OcsdHeader_to_bytes(h) ==
    bytes_of(OcsdHeaderData,
             OcsdHeaderData_new(OcsdVersion_as_u8(h.ocsd_version),
                                h.buffer_size,
                                h.max_option_cards,
                                h.one_option_card_size,
                                h.buffer_start_address,
                                h.update_interval,
                                h.buffers_in_use))

\* OcsdHeader::from_bytes
OcsdHeader_from_bytes(bytes) ==
    LET data == from_bytes(OcsdHeaderData, bytes)
    IN  IF ~IsOk(data) THEN data
        ELSE Ok([ocsd_version |-> OcsdVersion_from(data.val.ocsd_version),
                 buffer_size |-> data.val.buffer_size,
                 max_option_cards |-> data.val.max_option_cards,
                 one_option_card_size |-> data.val.one_option_card_size,
                 buffer_start_address |-> data.val.buffer_start_address,
                 update_interval |-> data.val.update_interval,
                 buffers_in_use |-> data.val.buffers_in_use])

\* OcsdHeader::memory_size
OcsdHeader_memory_size == size_of(OcsdHeaderData)

\* OcsdDeviceHeader::to_bytes
OcsdDeviceHeader_to_bytes(h) ==
    bytes_of(OcsdDeviceHeaderData,
             OcsdDeviceHeaderData_new(DeviceVersion_as_u8(h.version),
                                      h.pci_bus,
                                      h.pci_device,
                                      h.flags_caps))

\* Mutant: flags_caps not read from the data.
OcsdDeviceHeader_from_bytes_noflags(bytes) ==
    LET data == from_bytes(OcsdDeviceHeaderData, bytes)
    IN  IF ~IsOk(data) THEN data
        ELSE Ok([version |-> DeviceVersion_from(data.val.version),
                 pci_bus |-> data.val.pci_bus,
                 pci_device |-> data.val.pci_device,
                 flags_caps |-> U32Zero])

\* OcsdDeviceHeader::from_bytes
OcsdDeviceHeader_from_bytes(bytes) ==
    LET data == from_bytes(OcsdDeviceHeaderData, bytes)
    IN  IF ~IsOk(data) THEN data
        ELSE Ok([version |-> DeviceVersion_from(data.val.version),
                 pci_bus |-> data.val.pci_bus,
                 pci_device |-> data.val.pci_device,
                 flags_caps |-> data.val.flags_caps])

\* OcsdDeviceHeader::memory_size
OcsdDeviceHeader_memory_size == size_of(OcsdDeviceHeaderData)

\* #[derive(Default)] of OcsdSensor
OcsdSensor_default ==
    [sensor_type |-> "Unknown",
     sensor_location |-> "Unknown",
     configuration |-> 0,
     status |-> OcsdSensorStatus_from(0),
     max_continuous_threshold |-> 0,
     caution_threshold |-> 0,
     reading |-> 0,
     update_count |-> 0,
     bus |-> None]

\* OcsdSensor::to_bytes.  Without a bus the result is Vec::default(), the
\* empty vector.
OcsdSensor_to_bytes(s) ==
    IF s.bus.some
    THEN LET data ==
                 OcsdSensorData_new(
                     OcsdSensorType_as_u8(s.sensor_type),
                     OcsdSensorLocation_as_u32(s.sensor_location),
                     Celsius_raw_value(s.caution_threshold),
                     Celsius_raw_value(s.max_continuous_threshold),
                     Celsius_raw_value(s.reading),
                     s.configuration,
                     OcsdSensorStatus_into(s.status),
                     s.update_count,
                     s.bus.val)
         IN  IF IsOk(data) THEN Ok(bytes_of(OcsdSensorData, data.val)) ELSE data
    ELSE Ok(<<>>)

\* OcsdSensor::from_bytes
OcsdSensor_from_bytes(bytes) ==
    LET data == from_bytes(OcsdSensorData, bytes)
    IN  IF ~IsOk(data) THEN data
        ELSE Ok([sensor_type |-> OcsdSensorType_from(data.val.sensor_type),
                 sensor_location |->
                     OcsdSensorLocation_from(data.val.sensor_location),
                 configuration |-> OcsdSensorData_configuration(data.val),
                 status |-> OcsdSensorStatus_from(OcsdSensorData_status(data.val)),
                 max_continuous_threshold |->
                     Celsius_from_raw(data.val.max_continuous_threshold),
                 caution_threshold |->
                     Celsius_from_raw(data.val.caution_threshold),
                 reading |-> Celsius_from_raw(data.val.reading),
                 update_count |-> data.val.update_count,
                 bus |-> None])

\* OcsdSensor::from_bytes, OcsdDeviceHeader::from_bytes and
\* OcsdHeader::from_bytes of a slice that starts at the address at.
OcsdSensor_from_slice(bytes, at) ==
    LET data == from_bytes_at(OcsdSensorData, bytes, at)
    IN  IF IsOk(data) THEN OcsdSensor_from_bytes(bytes) ELSE data

OcsdDeviceHeader_from_slice(bytes, at) ==
    LET data == from_bytes_at(OcsdDeviceHeaderData, bytes, at)
    IN  IF IsOk(data) THEN OcsdDeviceHeader_from_bytes(bytes) ELSE data

OcsdHeader_from_slice(bytes, at) ==
    LET data == from_bytes_at(OcsdHeaderData, bytes, at)
    IN  IF IsOk(data) THEN OcsdHeader_from_bytes(bytes) ELSE data

\* OcsdSensor::memory_size
OcsdSensor_memory_size == size_of(OcsdSensorData)

\* The first result of a sequence of results that is not Ok, or Ok of the
\* sequence of their values.
AllOk(results) ==
    IF \E k \in DOMAIN results : ~IsOk(results[k])
    THEN results[CHOOSE k \in DOMAIN results :
                    /\ ~IsOk(results[k])
                    /\ \A j \in 1..(k - 1) : IsOk(results[j])]
    ELSE Ok([k \in DOMAIN results |-> results[k].val])

\* OcsdDevice::to_bytes
OcsdDevice_to_bytes(d) ==
    LET some_bytes == OcsdDeviceHeader_to_bytes(d.header)
        sensors_bytes == AllOk([k \in 1..3 |-> OcsdSensor_to_bytes(d.sensors[k])])
    IN  IF IsOk(sensors_bytes)
        THEN Ok(some_bytes \o Flatten(sensors_bytes.val))
        ELSE sensors_bytes

\* One turn of the loop of OcsdDevice::from_bytes, i from 0.
OcsdDevice_sensor_at(sensor_bytes, i) ==
    LET chunk == Slice(sensor_bytes, i * OcsdSensor_memory_size,
                       (i + 1) * OcsdSensor_memory_size)
    IN  IF IsOk(chunk) THEN OcsdSensor_from_bytes(chunk.val) ELSE chunk

\* OcsdDevice::from_bytes
OcsdDevice_from_bytes(bytes) ==
    LET head == Slice(bytes, 0, OcsdDeviceHeader_memory_size)
        header == OcsdDeviceHeader_from_bytes(head.val)
        sensor_bytes == Slice(bytes, OcsdDeviceHeader_memory_size, Len(bytes))
        sensors == AllOk([k \in 1..3 |->
                            OcsdDevice_sensor_at(sensor_bytes.val, k - 1)])
    IN  IF ~IsOk(head) THEN head
        ELSE IF ~IsOk(header) THEN header
        ELSE IF ~IsOk(sensor_bytes) THEN sensor_bytes
        ELSE IF ~IsOk(sensors) THEN sensors
        ELSE Ok([header |-> header.val, sensors |-> sensors.val])

\* OcsdDevice::memory_size
OcsdDevice_memory_size == OcsdDeviceHeader_memory_size + 3 * OcsdSensor_memory_size

---------------------------------------------------------------------------
(* The client: mappings of /dev/mem (src/src/client/mod.rs) *)

\* const OCSD_HEADER_SIZE: usize = 0x40
OCSD_HEADER_SIZE == 64

\* A usize is a record [lo, hi] like a u32, whose hi holds the upper 48
\* bits: `x as usize` of a u32 keeps its limbs, and adding a natural below
\* 2^16 carries into hi without overflow.
AsUsize(x) == x

UsizePlus(a, n) ==
    LET lo == a.lo + n
    IN  [lo |-> lo % Limb, hi |-> a.hi + lo \div Limb]

\* devmem::Mapping: the region it maps.
Mapping(address, length) == [address |-> address, length |-> length]

\* Before OcsdContext::new has returned there is no context and nothing is
\* mapped.
NoContext == [state |-> "Uninitialized", header_mapping |-> <<>>, device_mappings |-> <<>>]

NoMemory == [header |-> <<>>, devices |-> <<>>]

MappingError(msg) == Err("MappingError: " \o msg)

\* Mutant: the index compared with > instead of >=.
open_device_mapping_off_by_one(h, device_index, granted) ==
    IF device_index > h.max_option_cards
    THEN [ret |-> MappingError("requested device index doesn't fit max number of option cards"),
          opens |-> <<>>]
    ELSE LET start_address ==
                 UsizePlus(AsUsize(h.buffer_start_address),
                           h.one_option_card_size * device_index)
             call == Mapping(start_address, h.one_option_card_size)
         IN  [ret |-> IF granted THEN Ok(call)
                      ELSE MappingError("unable to open device mapping"),
              opens |-> <<call>>]

\* OcsdHeader::open_device_mapping.  granted is the answer of Mapping::new,
\* should it be called; the result comes with the calls made to it.
open_device_mapping(h, device_index, granted) ==
    IF device_index >= h.max_option_cards
    THEN [ret |-> MappingError("requested device index doesn't fit max number of option cards"),
          opens |-> <<>>]
    ELSE LET start_address ==
                 UsizePlus(AsUsize(h.buffer_start_address),
                           h.one_option_card_size * device_index)
             call == Mapping(start_address, h.one_option_card_size)
         IN  [ret |-> IF granted THEN Ok(call)
                      ELSE MappingError("unable to open device mapping"),
              opens |-> <<call>>]

---------------------------------------------------------------------------
(* Inputs of the calls: for each integer field the values of the source's  *)
(* test vectors and example, zero, and the TopN largest values of its type *)

TopU8 == (255 - TopN + 1)..255

TopU16 == (U16Max - TopN + 1)..U16Max

TopU32 == {U32(lo, U16Max) : lo \in TopU16}

\* Sensor records as the hardware may hold them (tests checksum_null and
\* checksum_1 are among them), with the bus passed to checksum.
RawSensors ==
    {[DefaultData(OcsdSensorData) EXCEPT
         !.sensor_type = t, !.sensor_location = l, !.caution_threshold = c,
         !.max_continuous_threshold = m, !.configuration_status = cs,
         !.reading = r, !.update_count = u] :
     t \in {0, 1}, l \in {U32Zero, ZeroExtend(1)} \cup TopU32, c \in {0, 103},
     m \in {0, 93}, cs \in {U32Zero, Shl16(11)} \cup TopU32, r \in {0, 35},
     u \in {0, 56195}}

ChecksumCalls ==
    {[bytes |-> bytes_of(OcsdSensorData, d), bus |-> b] :
     d \in RawSensors, b \in {0, 3} \cup TopU8}

Sensors ==
    {[sensor_type |-> t, sensor_location |-> l, configuration |-> c,
      status |-> OcsdSensorStatus_from(st), max_continuous_threshold |-> m,
      caution_threshold |-> ca, reading |-> r, update_count |-> u, bus |-> b] :
     t \in {"Unknown", "Thermal"},
     l \in {"Unknown", "InternalToAsic", "OnboardOther"},
     c \in {0} \cup TopU16, st \in {0, 11} \cup TopU16,
     m \in {0} \cup ((-TopN)..(-1)), ca \in {0, 103},
     r \in {0} \cup (I8Min..(I8Min + TopN - 1)),
     u \in {0} \cup TopU16,
     b \in {None, Some(3)} \cup {Some(v) : v \in TopU8}}

\* The sensor of examples/report_device (make_device).
ExampleSensor ==
    [sensor_type |-> "Thermal", sensor_location |-> "InternalToAsic",
     configuration |-> 0, status |-> OcsdSensorStatus_from(11),
     max_continuous_threshold |-> 80, caution_threshold |-> 90,
     reading |-> 40, update_count |-> 7, bus |-> Some(4)]

SlotSensors ==
    { OcsdSensor_default,
      ExampleSensor,
      [OcsdSensor_default EXCEPT !.bus = Some(4)],
      [ExampleSensor EXCEPT !.configuration = U16Max,
                            !.status = OcsdSensorStatus_from(U16Max),
                            !.reading = -1] }

DeviceHeaders ==
    {[version |-> v, pci_bus |-> b, pci_device |-> d, flags_caps |-> f] :
     v \in {"Unknown", "Version1"}, b \in {0, 4} \cup TopU8, d \in {0} \cup TopU8,
     f \in {U32Zero, ZeroExtend(16)} \cup TopU32}

Devices ==
    {[header |-> h, sensors |-> <<s0, s1, s2>>] :
     h \in {x \in DeviceHeaders : x.pci_bus = 4 /\ x.pci_device = 0},
     s0 \in SlotSensors, s1 \in SlotSensors, s2 \in SlotSensors}

\* Device headers as the hardware may hold them: any version byte, any
\* value in the reserved words, the checksum that goes with them.
RawDeviceHeaders ==
    {LET d == [DefaultData(OcsdDeviceHeaderData) EXCEPT
                  !.version = v, !.pci_bus = b, !.pci_device = 0,
                  !._unknown_1 = u1, !._unknown_2 = u2, !.flags_caps = f,
                  !._unknown_3 = [k \in 1..9 |-> IF k \in ks THEN ZeroExtend(k)
                                                ELSE U32Zero]]
     IN  bytes_of(OcsdDeviceHeaderData,
                  [d EXCEPT !.checksum = OcsdDeviceHeaderData_checksum(d)]) :
     v \in {0, 1} \cup TopU8, b \in {0, 4}, u1 \in {U32Zero, ZeroExtend(1)},
     u2 \in {U32Zero} \cup TopU32, f \in {U32Zero, ZeroExtend(16)} \cup TopU32,
     ks \in {{}, {1}, {9}, 1..9}}

Headers ==
    {[ocsd_version |-> v, buffer_size |-> bs, max_option_cards |-> n,
      one_option_card_size |-> sz, buffer_start_address |-> a,
      update_interval |-> ui, buffers_in_use |-> iu] :
     v \in {"Unknown", "Version2"}, bs \in {0, 480} \cup TopU16,
     n \in {0, 3} \cup TopU8, sz \in {0, 160} \cup TopU8,
     a \in {U32Zero, U32(64, 31742)} \cup TopU32, ui \in {5} \cup TopU8,
     iu \in {0, 3} \cup TopU8}

\* Mutant: every slot mapped at the start of the buffer.
open_device_mappings_first_slot(h, i, refused, acc) ==
    [ret |-> Ok(<<>>),
     opens |-> acc.opens \o [k \in 1..h.max_option_cards |->
                                Mapping(AsUsize(h.buffer_start_address),
                                        h.one_option_card_size)],
     device_mappings |->
         [k \in 1..h.max_option_cards |->
             [mapping |-> Mapping(AsUsize(h.buffer_start_address),
                                  h.one_option_card_size),
              device_size |-> h.one_option_card_size]]]

\* The loop `for i in 0..init_header.max_option_cards` of OcsdContext::new,
\* from turn i on.  refused holds the ordinals of the calls that
\* Mapping::new answers with an error (the header is call 1); acc is what
\* the turns before have opened and pushed.
RECURSIVE open_device_mappings(_, _, _, _)
open_device_mappings(h, i, refused, acc) ==
    IF i >= h.max_option_cards
    THEN acc
    ELSE LET r == open_device_mapping(h, i, (Len(acc.opens) + 1) \notin refused)
         IN  IF IsOk(r.ret)
             THEN open_device_mappings(h, i + 1, refused,
                      [ret |-> acc.ret,
                       opens |-> acc.opens \o r.opens,
                       device_mappings |->
                           Append(acc.device_mappings,
                                  [mapping |-> r.ret.val,
                                   device_size |-> h.one_option_card_size])])
             ELSE [ret |-> r.ret,
                   opens |-> acc.opens \o r.opens,
                   device_mappings |-> <<>>]

\* Mapping::copy_into_slice and Mapping::copy_from_slice of the devmem
\* crate, over the bytes of the mapped region: a copy of the whole region
\* when the slice has the region's length.  For a slice of another length
\* the crate's contract is not known here: the call panics, or copies as
\* many bytes as both hold.
copy_into_slice(region, dst) ==
    IF Len(dst) = Len(region)
    THEN {Ok(region)}
    ELSE {Panicked("copy_into_slice: length mismatch"),
          Ok([k \in DOMAIN dst |-> IF k <= Len(region) THEN region[k] ELSE dst[k]])}

copy_from_slice(region, src) ==
    IF Len(src) = Len(region)
    THEN {Ok(src)}
    ELSE {Panicked("copy_from_slice: length mismatch"),
          Ok([k \in DOMAIN region |-> IF k <= Len(src) THEN src[k] ELSE region[k]])}

\* vec![0x00; n]
Zeroes(n) == [k \in 1..n |-> 0]

\* Mutant: the buffer decoded without the copy of the region into it.
OcsdContext_read_header_uncopied(header_region) ==
    OcsdHeader_from_bytes(Zeroes(OCSD_HEADER_SIZE))

\* OcsdContext::_read_header: the 64 bytes of the header region, decoded.
OcsdContext_read_header(header_region) ==
    LET copies == copy_into_slice(header_region, Zeroes(OCSD_HEADER_SIZE))
        header_data == CHOOSE c \in copies : TRUE
    IN  IF IsOk(header_data) THEN OcsdHeader_from_bytes(header_data.val)
        ELSE header_data

\* Mutant: the slots opened before a failure returned as a context.
OcsdContext_new_partial(base_address, refused, mem) ==
    LET header_mapping == Mapping(base_address, OCSD_HEADER_SIZE)
        init == OcsdContext_read_header(mem.header)
        slots == open_device_mappings(init.val, 0, refused,
                     [ret |-> Ok(<<>>), opens |-> <<header_mapping>>,
                      device_mappings |-> <<>>])
    IN  IF 1 \in refused
        THEN [ret |-> MappingError("unable to open ocsd header"),
              opens |-> <<header_mapping>>,
              init_header |-> <<>>,
              context |-> NoContext]
        ELSE [ret |-> Ok("OcsdContext"), opens |-> slots.opens,
              init_header |-> init.val,
              context |-> [state |-> "Ready",
                           header_mapping |-> header_mapping,
                           device_mappings |-> slots.device_mappings]]

\* OcsdContext::new over the memory mem: the result, the calls made to
\* Mapping::new, the header decoded and the context built, if any.
OcsdContext_new(base_address, refused, mem) ==
    LET header_mapping == Mapping(base_address, OCSD_HEADER_SIZE)
        init == OcsdContext_read_header(mem.header)
        slots == open_device_mappings(init.val, 0, refused,
                     [ret |-> Ok(<<>>), opens |-> <<header_mapping>>,
                      device_mappings |-> <<>>])
    IN  IF 1 \in refused
        THEN [ret |-> MappingError("unable to open ocsd header"),
              opens |-> <<header_mapping>>,
              init_header |-> <<>>,
              context |-> NoContext]
        ELSE IF ~IsOk(init)
        THEN [ret |-> init, opens |-> <<header_mapping>>,
              init_header |-> <<>>, context |-> NoContext]
        ELSE IF ~IsOk(slots.ret)
        THEN [ret |-> slots.ret, opens |-> slots.opens,
              init_header |-> init.val, context |-> NoContext]
        ELSE [ret |-> Ok("OcsdContext"), opens |-> slots.opens,
              init_header |-> init.val,
              context |-> [state |-> "Ready",
                           header_mapping |-> header_mapping,
                           device_mappings |-> slots.device_mappings]]

\* The geometry a system header may announce: no slot, one, the three of
\* the example, the most a u8 holds; slots of no byte, of a device (160)
\* and of the most a u8 holds; a buffer at the bottom of memory, where
\* the example puts it, and at the top of the 32-bit range.
Geometries ==
    {[ocsd_version |-> "Version2", buffer_size |-> 480, max_option_cards |-> n,
      one_option_card_size |-> sz, buffer_start_address |-> a,
      update_interval |-> 5, buffers_in_use |-> 0] :
     n \in {0, 1, 3} \cup TopU8, sz \in {0, 160} \cup TopU8,
     a \in {U32Zero, U32(64, 31742)} \cup TopU32}

\* Where a slice to decode may start, as its address modulo 8.
SliceAddresses == {0, 1, 2, 4}

\* Records to decode, as memory may hold them: any type, location and
\* version, a checksum that goes with nothing.
SensorSlices ==
    {[bytes |-> bytes_of(OcsdSensorData,
                         [DefaultData(OcsdSensorData) EXCEPT
                             !.sensor_type = t, !.sensor_location = l,
                             !.reading = 35, !.checksum = c]),
      at |-> a] :
     t \in {0, 1, 2} \cup TopU8,
     l \in {U32Zero, ZeroExtend(1), ZeroExtend(5), ZeroExtend(2), U32(1, 1)}
            \cup TopU32,
     c \in {U32Zero, U32(4660, 22136)}, a \in SliceAddresses}

DeviceHeaderSlices ==
    {[bytes |-> bytes_of(OcsdDeviceHeaderData,
                         [DefaultData(OcsdDeviceHeaderData) EXCEPT
                             !.version = v, !.pci_bus = 4, !.checksum = c]),
      at |-> a] :
     v \in {0, 1, 2} \cup TopU8, c \in {U32Zero, U32(4660, 22136)},
     a \in SliceAddresses}

HeaderSlices ==
    {[bytes |-> bytes_of(OcsdHeaderData,
                         [DefaultData(OcsdHeaderData) EXCEPT
                             !.ocsd_version = v, !.max_option_cards = 3,
                             !.checksum = c]),
      at |-> a] :
     v \in {0, 1, 2, 3} \cup TopU8, c \in {U32Zero, U32(4660, 22136)},
     a \in SliceAddresses}

\* The sizes of a slot: a device (160), less and more.
SlotSizes == {100, 160, 200}

\* The header regions the firmware may have set up when the client starts:
\* their bytes, checksum included.
FirmwareHeaders ==
    {bytes_of(OcsdHeaderData,
              OcsdHeaderData_new(2, 480, n, sz, U32(U16Max - 199, U16Max), 5, n)) :
     n \in 0..MaxCards, sz \in SlotSizes}

\* What the firmware may turn the header region into while the client
\* runs: another geometry, another count of buffers in use, a version the
\* client does not know with a checksum that does not match.
FirmwareUpdates ==
    { bytes_of(OcsdHeaderData, OcsdHeaderData_new(2, 480, 255, 0, U32Zero, 5, 0)),
      bytes_of(OcsdHeaderData, OcsdHeaderData_new(2, 480, 1, 160, U32(64, 31742), 9, 1)),
      bytes_of(OcsdHeaderData,
               [OcsdHeaderData_new(7, 480, 3, 160, U32(64, 31742), 5, 3)
                   EXCEPT !.checksum = U32Zero]) }

\* The headers and devices the client writes.
WrittenHeaders ==
    {[ocsd_version |-> v, buffer_size |-> 480, max_option_cards |-> 3,
      one_option_card_size |-> sz, buffer_start_address |-> U32(64, 31742),
      update_interval |-> 5, buffers_in_use |-> 3] :
     v \in {"Unknown"}, sz \in {160}}
    \cup {[ocsd_version |-> "Version2", buffer_size |-> U16Max,
            max_option_cards |-> 255, one_option_card_size |-> 255,
            buffer_start_address |-> U32(U16Max, U16Max),
            update_interval |-> 255, buffers_in_use |-> 255]}

WrittenDevices ==
    {[header |-> [version |-> "Version1", pci_bus |-> 4, pci_device |-> 0,
                  flags_caps |-> ZeroExtend(16)],
      sensors |-> <<ExampleSensor, s, s>>] :
     s \in {ExampleSensor, OcsdSensor_default}}

\* The runs of the client: the address of the header, the calls that
\* Mapping::new refuses, the header region the firmware has set up.
BaseAddresses == {U32(0, 31742)}

NewCalls ==
    {[base_address |-> b, refused |-> r] :
     b \in BaseAddresses, r \in SUBSET (1..(MaxCards + 1))}

OpenCalls ==
    {[header |-> h, device_index |-> i, granted |-> g] :
     h \in Geometries, i \in {0, 1, 2, 3, 254} \cup TopU8, g \in BOOLEAN}

---------------------------------------------------------------------------
(* Actions: one per operation *)

\* The call op(arg) has been made and has not returned yet.
Calling(name) == pc = "call" /\ op = name

\* The call returns r.
Return(r) ==
    /\ pc' = "done"
    /\ ret' = r
    /\ UNCHANGED <<op, arg, overflow_checks, context, memory, opens, init_header>>

CallCelsiusNew ==
    /\ Calling("Celsius::new")
    /\ Return(Celsius_new(arg))

\* new(d) followed by raw_value, from_raw and degrees on its result
\* (tests::temperature and the doc tests).
CallCelsiusRoundTrip ==
    /\ Calling("Celsius::round_trip")
    /\ LET made == Celsius_new(arg)
           raw == Celsius_raw_value(made.val)
       IN  IF IsOk(made)
           THEN Return(Ok([raw |-> raw,
                           degrees |-> Celsius_degrees(Celsius_from_raw(raw))]))
           ELSE Return(made)

CallCelsiusFromRaw ==
    /\ Calling("Celsius::from_raw")
    /\ Return(Ok(Celsius_from_raw(arg)))

\* tests checksum_null, checksum_1, checksum_2: the record is read from
\* its bytes and checksum(bus) is called on it.
CallSensorDataChecksum ==
    /\ Calling("OcsdSensorData::checksum")
    /\ LET data == from_bytes(OcsdSensorData, arg.bytes)
       IN  IF IsOk(data)
           THEN Return(OcsdSensorData_checksum(data.val, arg.bus))
           ELSE Return(data)

CallSensorToBytes ==
    /\ Calling("OcsdSensor::to_bytes")
    /\ Return(OcsdSensor_to_bytes(arg))

\* OcsdSensor::from_bytes(&sensor.to_bytes())
CallSensorRoundTrip ==
    /\ Calling("OcsdSensor::round_trip")
    /\ LET bytes == OcsdSensor_to_bytes(arg)
       IN  IF IsOk(bytes)
           THEN Return(OcsdSensor_from_bytes(bytes.val))
           ELSE Return(bytes)

CallDeviceToBytes ==
    /\ Calling("OcsdDevice::to_bytes")
    /\ Return(OcsdDevice_to_bytes(arg))

\* OcsdDevice::from_bytes(&device.to_bytes())
CallDeviceRoundTrip ==
    /\ Calling("OcsdDevice::round_trip")
    /\ LET bytes == OcsdDevice_to_bytes(arg)
       IN  IF IsOk(bytes)
           THEN Return(OcsdDevice_from_bytes(bytes.val))
           ELSE Return(bytes)

CallHeaderToBytes ==
    /\ Calling("OcsdHeader::to_bytes")
    /\ Return(Ok(OcsdHeader_to_bytes(arg)))

CallDeviceHeaderToBytes ==
    /\ Calling("OcsdDeviceHeader::to_bytes")
    /\ Return(Ok(OcsdDeviceHeader_to_bytes(arg)))

\* OcsdDeviceHeader::from_bytes(&bytes).to_bytes(): a header read from the
\* buffer and written back.
CallDeviceHeaderRewrite ==
    /\ Calling("OcsdDeviceHeader::rewrite")
    /\ LET header == OcsdDeviceHeader_from_bytes(arg)
       IN  IF IsOk(header)
           THEN Return(Ok(OcsdDeviceHeader_to_bytes(header.val)))
           ELSE Return(header)

CallSensorFromBytes ==
    /\ Calling("OcsdSensor::from_bytes")
    /\ Return(OcsdSensor_from_slice(arg.bytes, arg.at))

CallDeviceHeaderFromBytes ==
    /\ Calling("OcsdDeviceHeader::from_bytes")
    /\ Return(OcsdDeviceHeader_from_slice(arg.bytes, arg.at))

CallHeaderFromBytes ==
    /\ Calling("OcsdHeader::from_bytes")
    /\ Return(OcsdHeader_from_slice(arg.bytes, arg.at))

CallOpenDeviceMapping ==
    /\ Calling("OcsdHeader::open_device_mapping")
    /\ LET r == open_device_mapping(arg.header, arg.device_index, arg.granted)
       IN  /\ pc' = "done"
           /\ ret' = r.ret
           /\ opens' = opens \o r.opens
    /\ UNCHANGED <<op, arg, overflow_checks, context, memory, init_header>>

\* OcsdContext::new
New ==
    /\ Calling("OcsdContext::new")
    /\ LET r == OcsdContext_new(arg.base_address, arg.refused, memory)
       IN  /\ pc' = IF IsOk(r.ret) THEN "ready" ELSE "done"
           /\ ret' = r.ret
           /\ opens' = opens \o r.opens
           /\ init_header' = r.init_header
           /\ context' = r.context
    /\ UNCHANGED <<op, arg, overflow_checks, memory>>

\* The call name(a) on the context returns r, or panics with r.
Returns(name, a, r) ==
    /\ pc' = IF r.tag = "Panic" THEN "done" ELSE "ready"
    /\ op' = name
    /\ arg' = a
    /\ ret' = r
    /\ UNCHANGED <<overflow_checks, context, opens, init_header>>

\* OcsdContext::read_header
ReadHeader ==
    /\ pc = "ready"
    /\ Returns("OcsdContext::read_header", <<>>,
               OcsdContext_read_header(memory.header))
    /\ UNCHANGED memory

\* OcsdContext::write_header
WriteHeader ==
    /\ pc = "ready"
    /\ \E device \in WrittenHeaders :
       \E copy \in copy_from_slice(memory.header, OcsdHeader_to_bytes(device)) :
           /\ Returns("OcsdContext::write_header", device,
                      IF IsOk(copy) THEN Ok(<<>>) ELSE copy)
           /\ memory' = IF IsOk(copy) THEN [memory EXCEPT !.header = copy.val]
                         ELSE memory

\* OcsdDeviceContext::read, on device_mappings[i] (i from 0).
ReadDevice ==
    /\ pc = "ready"
    /\ \E i \in 0..(Len(context.device_mappings) - 1) :
       LET self == context.device_mappings[i + 1]
       IN  \E device_data \in copy_into_slice(memory.devices[i + 1],
                                               Zeroes(self.device_size)) :
               Returns("OcsdDeviceContext::read", i,
                       IF IsOk(device_data)
                       THEN OcsdDevice_from_bytes(device_data.val)
                       ELSE device_data)
    /\ UNCHANGED memory

\* OcsdDeviceContext::write, on device_mappings[i] (i from 0).
WriteDevice ==
    /\ pc = "ready"
    /\ \E i \in 0..(Len(context.device_mappings) - 1), device \in WrittenDevices :
       LET bytes == OcsdDevice_to_bytes(device)
       IN  IF ~IsOk(bytes)
           THEN /\ Returns("OcsdDeviceContext::write", [index |-> i, device |-> device], bytes)
                /\ UNCHANGED memory
           ELSE \E copy \in copy_from_slice(memory.devices[i + 1], bytes.val) :
                    /\ Returns("OcsdDeviceContext::write",
                               [index |-> i, device |-> device],
                               IF IsOk(copy) THEN Ok(<<>>) ELSE copy)
                    /\ memory' = IF IsOk(copy)
                                  THEN [memory EXCEPT !.devices[i + 1] = copy.val]
                                  ELSE memory

\* The firmware, which owns the header region, rewrites it under the
\* client's mapping.
Firmware ==
    /\ pc = "ready"
    /\ \E image \in FirmwareUpdates :
           /\ memory' = [memory EXCEPT !.header = image]
           /\ op' = "firmware"
           /\ arg' = image
    /\ UNCHANGED <<pc, ret, overflow_checks, context, opens, init_header>>

---------------------------------------------------------------------------
(* Specifications *)

\* A call op(arg) about to run, in either build profile.
Start(name, args) ==
    /\ pc = "call"
    /\ op = name
    /\ arg \in args
    /\ ret = Ok(<<>>)
    /\ overflow_checks \in BOOLEAN
    /\ context = NoContext
    /\ memory = NoMemory
    /\ opens = <<>>
    /\ init_header = <<>>

InitTemperature ==
    \/ Start("Celsius::new", I16Min..I16Max)
    \/ Start("Celsius::round_trip", I16Min..I16Max)
    \/ Start("Celsius::from_raw", Byte)

NextTemperature ==
    \/ CallCelsiusNew
    \/ CallCelsiusRoundTrip
    \/ CallCelsiusFromRaw

SpecTemperature == InitTemperature /\ [][NextTemperature]_vars

Init ==
    \/ Start("OcsdSensorData::checksum", ChecksumCalls)
    \/ Start("OcsdSensor::to_bytes", Sensors)
    \/ Start("OcsdSensor::round_trip", Sensors)
    \/ Start("OcsdDevice::to_bytes", Devices)
    \/ Start("OcsdDevice::round_trip", Devices)
    \/ Start("OcsdHeader::to_bytes", Headers)
    \/ Start("OcsdDeviceHeader::to_bytes", DeviceHeaders)
    \/ Start("OcsdDeviceHeader::rewrite", RawDeviceHeaders)
    \/ Start("OcsdSensor::from_bytes", SensorSlices)
    \/ Start("OcsdDeviceHeader::from_bytes", DeviceHeaderSlices)
    \/ Start("OcsdHeader::from_bytes", HeaderSlices)

Next ==
    \/ CallSensorDataChecksum
    \/ CallSensorToBytes
    \/ CallSensorRoundTrip
    \/ CallDeviceToBytes
    \/ CallDeviceRoundTrip
    \/ CallHeaderToBytes
    \/ CallDeviceHeaderToBytes
    \/ CallDeviceHeaderRewrite
    \/ CallSensorFromBytes
    \/ CallDeviceHeaderFromBytes
    \/ CallHeaderFromBytes

Spec == Init /\ [][Next]_vars

InitMapping == Start("OcsdHeader::open_device_mapping", OpenCalls)

NextMapping == CallOpenDeviceMapping

SpecMapping == InitMapping /\ [][NextMapping]_vars

\* The client starts on OcsdContext::new(base_address), over the header
\* the firmware has set up and device slots that hold no record yet.
InitContext ==
    /\ pc = "call"
    /\ op = "OcsdContext::new"
    /\ arg \in NewCalls
    /\ ret = Ok(<<>>)
    /\ overflow_checks \in BOOLEAN
    /\ context = NoContext
    /\ \E image \in FirmwareHeaders :
           LET h == OcsdHeader_from_bytes(image).val
           IN  /\ arg.refused \subseteq 1..(h.max_option_cards + 1)
               /\ memory = [header |-> image,
                            devices |-> [k \in 1..h.max_option_cards |->
                                            Zeroes(h.one_option_card_size)]]
    /\ opens = <<>>
    /\ init_header = <<>>

NextContext ==
    \/ New
    \/ ReadHeader
    \/ WriteHeader
    \/ ReadDevice
    \/ WriteDevice
    \/ Firmware

SpecContext == InitContext /\ [][NextContext]_vars

---------------------------------------------------------------------------
(* Claims.  The formulas read the wire bytes at the offsets of the layout  *)
(* table and do the arithmetic on exact sums of 16-bit limbs.              *)

Returned(name) == pc = "done" /\ op = name

\* The u16 and the two limbs of the u32 at a byte offset (from 0).
WireU16(bytes, at) == bytes[at + 1] + 256 * bytes[at + 2]

WireU32(bytes, at) == U32(WireU16(bytes, at), WireU16(bytes, at + 2))

\* -(hi * 2^16 + lo) modulo 2^32, for any naturals lo and hi.
NegMod32(lo, hi) ==
    LET l == lo % Limb
        h == (hi + lo \div Limb) % Limb
    IN  U32((Limb - l) % Limb, (Limb - h - (IF l > 0 THEN 1 ELSE 0)) % Limb)

AllZero(bytes) == \A k \in DOMAIN bytes : bytes[k] = 0

\* The scalar sum of a sensor record, as the exact pair of sums of the low
\* and of the high limbs of its fields.
SensorSumLo(b) ==
    b[1] + WireU16(b, 4) + b[9] + b[13] + WireU16(b, 16) + b[21] + WireU16(b, 24)

SensorSumHi(b) == WireU16(b, 6) + WireU16(b, 18)

\* C1 (as claimed): for every sensor wire record and every bus, checksum(bus)
\* is 0 when the scalar sum type + location + thresholds +
\* configuration_status + reading + update_count is exactly zero, and
\* otherwise the additive inverse modulo 2^32 of (scalar sum + bus).
C1_SensorChecksum ==
    Returned("OcsdSensorData::checksum") =>
        /\ IsOk(ret)
        /\ ret.val =
             IF SensorSumLo(arg.bytes) = 0 /\ SensorSumHi(arg.bytes) = 0
             THEN U32Zero
             ELSE NegMod32(SensorSumLo(arg.bytes) + arg.bus,
                           SensorSumHi(arg.bytes))

SameSensorFields(a, b) ==
    /\ a.sensor_type = b.sensor_type
    /\ a.sensor_location = b.sensor_location
    /\ a.configuration = b.configuration
    /\ a.status = b.status
    /\ a.max_continuous_threshold = b.max_continuous_threshold
    /\ a.caution_threshold = b.caution_threshold
    /\ a.reading = b.reading
    /\ a.update_count = b.update_count

\* C2 (as claimed): for every Sensor value, bus present or absent, encode
\* succeeds and decode(encode(s)) reproduces every field of s except bus,
\* which comes back absent.
C2_SensorRoundTrip ==
    Returned("OcsdSensor::round_trip") =>
        /\ IsOk(ret)
        /\ SameSensorFields(ret.val, arg)
        /\ ret.val.bus = None

\* C3 (as claimed): encoding a Sensor whose bus is absent gives exactly 32
\* bytes, every one of them zero.
C3_AbsentBusEncodesZeroes ==
    (Returned("OcsdSensor::to_bytes") /\ ~arg.bus.some) =>
        /\ IsOk(ret)
        /\ Len(ret.val) = 32
        /\ AllZero(ret.val)

\* C4 (as claimed): encode(device) has length Device wireSize() and is the
\* header encoding followed by the three sensor slots; for a device whose
\* middle sensor has bus absent the 32 bytes of slot 1 are zero and
\* decode(encode(device)) succeeds and returns the same header and the same
\* slot-0 and slot-2 sensor fields.
C4_DeviceRoundTrip ==
    /\ Returned("OcsdDevice::to_bytes") =>
          /\ IsOk(ret)
          /\ Len(ret.val) = OcsdDevice_memory_size
          /\ SubSeq(ret.val, 1, OcsdDeviceHeader_memory_size)
                = OcsdDeviceHeader_to_bytes(arg.header)
          /\ ~arg.sensors[2].bus.some =>
                AllZero(SubSeq(ret.val,
                               OcsdDeviceHeader_memory_size + 32 + 1,
                               OcsdDeviceHeader_memory_size + 64))
    /\ (Returned("OcsdDevice::round_trip") /\ ~arg.sensors[2].bus.some) =>
          /\ IsOk(ret)
          /\ ret.val.header = arg.header
          /\ SameSensorFields(ret.val.sensors[1], arg.sensors[1])
          /\ SameSensorFields(ret.val.sensors[3], arg.sensors[3])

\* C5: for every SystemHeader value the last 4 bytes of its encoding
\* (offset 60, a little-endian u32) are the additive inverse modulo 2^32 of
\* version + buffer_size + max_option_cards + one_option_card_size +
\* buffer_start_address + update_interval + buffers_in_use, each
\* zero-extended to 32 bits.
C5_HeaderChecksum ==
    Returned("OcsdHeader::to_bytes") =>
        /\ IsOk(ret)
        /\ Len(ret.val) = 64
        /\ WireU32(ret.val, 60) =
             NegMod32((IF arg.ocsd_version = "Version2" THEN 2 ELSE 0)
                        + arg.buffer_size + arg.max_option_cards
                        + arg.one_option_card_size + arg.buffer_start_address.lo
                        + arg.update_interval + arg.buffers_in_use,
                      arg.buffer_start_address.hi)

\* C5 witness: a header with the largest start address and three buffers
\* in use has been encoded, Version2 among its summands.
C5_Witness ==
    /\ Returned("OcsdHeader::to_bytes")
    /\ arg.ocsd_version = "Version2"
    /\ arg.buffer_start_address = U32(U16Max, U16Max)
    /\ arg.buffers_in_use = 3
    /\ arg.buffer_size = 480
    /\ WireU32(ret.val, 60) # U32Zero

\* -(version + pci_bus + pci_device + flags_caps) modulo 2^32 of a header
\* the library builds, whose unknown fields are zero.
DeviceHeaderInverseSum(h) ==
    NegMod32((IF h.version = "Version1" THEN 1 ELSE 0)
               + h.pci_bus + h.pci_device + h.flags_caps.lo,
             h.flags_caps.hi)

\* C6: in the encoding of every DeviceHeader built by the library all
\* reserved/unknown 32-bit fields (offsets 12..19 and 24..59) are zero and
\* the stored checksum (offset 60) is the additive inverse modulo 2^32 of
\* version + pci_bus + pci_device + flags_caps + the unknown fields.
C6_DeviceHeaderChecksum ==
    Returned("OcsdDeviceHeader::to_bytes") =>
        /\ IsOk(ret)
        /\ AllZero(SubSeq(ret.val, 13, 20))
        /\ AllZero(SubSeq(ret.val, 25, 60))
        /\ WireU32(ret.val, 20) = arg.flags_caps
        /\ WireU32(ret.val, 60) = DeviceHeaderInverseSum(arg)

\* C6 witness: a Version1 header on bus 4 with the largest flags_caps has
\* been encoded.
C6_Witness ==
    /\ Returned("OcsdDeviceHeader::to_bytes")
    /\ arg.version = "Version1"
    /\ arg.pci_bus = 4
    /\ arg.flags_caps = U32(U16Max, U16Max)
    /\ WireU32(ret.val, 60) # U32Zero

\* How many of a device's sensors have a bus.
WithBus(sensors) == Cardinality({k \in DOMAIN sensors : sensors[k].bus.some})

C8_RewritePreservesUnknown ==
    Returned("OcsdDeviceHeader::rewrite") =>
        /\ IsOk(ret)
        /\ WireU32(ret.val, 20) = WireU32(arg, 20)
        /\ SubSeq(ret.val, 13, 20) = SubSeq(arg, 13, 20)
        /\ SubSeq(ret.val, 25, 60) = SubSeq(arg, 25, 60)

\* C8 (amended): decoding a DeviceHeader-sized input and re-encoding the
\* result preserves flags_caps (and pci_bus and pci_device) as the same
\* integer values; the reserved/unknown 32-bit fields are not carried over:
\* they are encoded as zero whatever the input held.
C8_RewritePreservesFlags ==
    Returned("OcsdDeviceHeader::rewrite") =>
        /\ IsOk(ret)
        /\ Len(ret.val) = Len(arg)
        /\ WireU32(ret.val, 20) = WireU32(arg, 20)
        /\ ret.val[5] = arg[5]
        /\ ret.val[9] = arg[9]
        /\ AllZero(SubSeq(ret.val, 13, 20))
        /\ AllZero(SubSeq(ret.val, 25, 60))

\* C8 witness: a header whose reserved words and flags_caps are not zero
\* has been decoded and re-encoded.
C8_Witness ==
    /\ Returned("OcsdDeviceHeader::rewrite")
    /\ WireU32(arg, 12) # U32Zero
    /\ WireU32(arg, 56) # U32Zero
    /\ WireU32(arg, 20) = U32(U16Max, U16Max)
    /\ IsOk(ret)
    /\ WireU32(ret.val, 20) = U32(U16Max, U16Max)

\* C9: for every i16 degrees, Celsius::new(degrees) returns OutOfRange
\* exactly when degrees + offset (offset = 0) lies outside [-128, 127], and
\* a Temperature otherwise.
C9_NewRange ==
    Returned("Celsius::new") =>
        IF arg + 0 < -128 \/ arg + 0 > 127
        THEN ret.tag = "Err" /\ ret.err = "TempOutOfRange"
        ELSE ret.tag = "Ok"

\* C9 witness: new(128), the first value above the range, has been refused.
C9_Witness ==
    /\ Returned("Celsius::new")
    /\ arg = 128
    /\ ret.tag = "Err"

\* C10: for every d in [-128, 127], rawByte(new(d)) is d mod 256 and
\* fromRaw(rawByte(new(d))).degrees() = d; fromRaw is total over the 256
\* byte values.
C10_RawRoundTrip ==
    /\ (Returned("Celsius::round_trip") /\ -128 <= arg /\ arg <= 127) =>
          /\ IsOk(ret)
          /\ ret.val.raw = arg % 256
          /\ ret.val.degrees = arg
    /\ Returned("Celsius::from_raw") =>
          /\ IsOk(ret)
          /\ ret.val \in -128..127
          /\ ret.val % 256 = arg

\* C10 witness: -1 has gone through new, raw_value (255), from_raw and
\* degrees.
C10_Witness ==
    /\ Returned("Celsius::round_trip")
    /\ arg = -1
    /\ IsOk(ret)
    /\ ret.val.raw = 255
    /\ ret.val.degrees = -1

\* C11: open_device_mapping(i) with i >= max_option_cards returns a
\* MappingError without calling the mapper; with i < max_option_cards it
\* calls the mapper exactly once, for one_option_card_size bytes at
\* buffer_start_address + one_option_card_size * i, and succeeds, with the
\* mapping of that call, whenever the call does.
C11_OpenDeviceMapping ==
    Returned("OcsdHeader::open_device_mapping") =>
        LET h == arg.header
            i == arg.device_index
        IN  IF i >= h.max_option_cards
            THEN /\ ret.tag = "Err"
                 /\ opens = <<>>
            ELSE /\ Len(opens) = 1
                 /\ opens[1].length = h.one_option_card_size
                 /\ opens[1].address.lo \in 0..U16Max
                 /\ (opens[1].address.hi - h.buffer_start_address.hi) * Limb
                        + (opens[1].address.lo - h.buffer_start_address.lo)
                    = h.one_option_card_size * i
                 /\ IsOk(ret) <=> arg.granted
                 /\ IsOk(ret) => ret.val = opens[1]
                 /\ ~IsOk(ret) => ret.tag = "Err"

\* C11 witness: the last slot of a full buffer at the top of the 32-bit
\* range has been mapped, past 2^32.
C11_Witness ==
    /\ Returned("OcsdHeader::open_device_mapping")
    /\ arg.header.max_option_cards = 255
    /\ arg.header.one_option_card_size = 255
    /\ arg.header.buffer_start_address = U32(U16Max, U16Max)
    /\ arg.device_index = 254
    /\ IsOk(ret)
    /\ ret.val.address.hi = Limb

\* The slot views of a header h, one_option_card_size bytes each, the
\* view of slot j starting one_option_card_size * j bytes after
\* buffer_start_address.
IsSlotView(view, h, j) ==
    /\ view.length = h.one_option_card_size
    /\ view.address.lo \in 0..U16Max
    /\ (view.address.hi - h.buffer_start_address.hi) * Limb
           + (view.address.lo - h.buffer_start_address.lo)
       = h.one_option_card_size * j

\* The system header that the 64 bytes of a header region hold.
WireHeader(b) ==
    [ocsd_version |-> IF b[1] = 2 THEN "Version2" ELSE "Unknown",
     buffer_size |-> WireU16(b, 4),
     max_option_cards |-> b[9],
     one_option_card_size |-> b[13],
     buffer_start_address |-> WireU32(b, 16),
     update_interval |-> b[33],
     buffers_in_use |-> b[57]]

\* C12: construction opens the header, then the slots in index order 0, 1,
\* ...; when the open of the header or of slot k fails it returns the
\* MappingError of that first failure and no context, opens no slot past
\* k and repeats no open; when none fails it returns the context.
C12_Construction ==
    (op = "OcsdContext::new" /\ pc # "call") =>
        LET h == WireHeader(memory.header)
            failing == arg.refused \cap 1..(h.max_option_cards + 1)
        IN  /\ Len(opens) >= 1
            /\ opens[1] = [address |-> arg.base_address, length |-> 64]
            /\ \A j \in 2..Len(opens) : IsSlotView(opens[j], h, j - 2)
            /\ \A i, j \in 1..Len(opens) : i # j => opens[i] # opens[j]
            /\ IF failing = {}
               THEN /\ IsOk(ret)
                    /\ Len(opens) = h.max_option_cards + 1
                    /\ context.state = "Ready"
               ELSE /\ \A k \in failing : Len(opens) <= k
                    /\ Len(opens) \in failing
                    /\ ret = Err(IF Len(opens) = 1
                                 THEN "MappingError: unable to open ocsd header"
                                 ELSE "MappingError: unable to open device mapping")
                    /\ context = NoContext
                    /\ pc = "done"

\* C12 witness: of two slots the second could not be opened, after the
\* header and the first; the third call was the last.
C12_Witness ==
    /\ op = "OcsdContext::new"
    /\ pc = "done"
    /\ WireHeader(memory.header).max_option_cards = 2
    /\ arg.refused = {3}
    /\ Len(opens) = 3
    /\ ret.tag = "Err"
    /\ context = NoContext

\* C13: once constructed, whatever is read or written, the context holds
\* the header view and exactly max_option_cards slot views, view i of
\* one_option_card_size bytes at buffer_start_address +
\* one_option_card_size * i, all three as decoded at construction; no view
\* is opened later, none is dropped, no two are the same.
C13_ViewsFixed ==
    context.state = "Ready" =>
        LET views == context.device_mappings
        IN  /\ context.header_mapping = opens[1]
            /\ context.header_mapping.length = 64
            /\ Len(views) = init_header.max_option_cards
            /\ Len(opens) = 1 + init_header.max_option_cards
            /\ \A i \in 1..Len(views) :
                   /\ IsSlotView(views[i].mapping, init_header, i - 1)
                   /\ views[i].mapping = opens[i + 1]
                   /\ views[i].mapping # context.header_mapping
                   /\ \A j \in 1..Len(views) :
                          i # j => views[i].mapping # views[j].mapping

\* C13 witness: a context of two slots has read a device after the
\* firmware announced 255 slots of no byte.
C13_Witness ==
    /\ context.state = "Ready"
    /\ op = "OcsdDeviceContext::read"
    /\ Len(context.device_mappings) = 2
    /\ WireHeader(memory.header).max_option_cards = 255
    /\ WireHeader(memory.header).one_option_card_size = 0

\* C14: read_header returns the header that the region holds when it is
\* called, never the one decoded at construction: the h of a
\* write_header(h) just before, the firmware's values after the firmware
\* has rewritten the region, while the slot views keep the addresses and
\* sizes of construction.
C14_ReadsRegion ==
    (op = "OcsdContext::read_header" /\ pc # "call") =>
        /\ ret = Ok(WireHeader(memory.header))
        /\ \A i \in 1..Len(context.device_mappings) :
               IsSlotView(context.device_mappings[i].mapping, init_header, i - 1)

C14_ReadAfterWrite ==
    (op' = "OcsdContext::read_header" /\ pc = "ready") =>
        /\ op = "OcsdContext::write_header" => ret' = Ok(arg)
        /\ op = "firmware" => ret' = Ok(WireHeader(arg))
        /\ op \in {"OcsdDeviceContext::read", "OcsdDeviceContext::write"} =>
               ret' = Ok(WireHeader(memory.header))

C14_ReadHeaderIsCurrent == []C14_ReadsRegion /\ [][C14_ReadAfterWrite]_vars

\* C14 witness: read_header has returned the 255 slots that the firmware
\* wrote over a header of two, of which the context keeps the views.
C14_Witness ==
    /\ op = "OcsdContext::read_header"
    /\ pc = "ready"
    /\ IsOk(ret)
    /\ ret.val.max_option_cards = 255
    /\ init_header.max_option_cards = 2
    /\ Len(context.device_mappings) = 2

\* C15: decoding a Sensor, a DeviceHeader or a SystemHeader from bytes of
\* the record's wire size never fails, whatever the checksum; a
\* sensor_type other than 1, a sensor_location other than 1 and 5 and a
\* version the library does not know decode to Unknown.
C15_DecodeNeverFails ==
    /\ Returned("OcsdSensor::from_bytes") =>
          /\ IsOk(ret)
          /\ ret.val.sensor_type = (IF arg.bytes[1] = 1 THEN "Thermal" ELSE "Unknown")
          /\ ret.val.sensor_location =
                (CASE WireU32(arg.bytes, 4) = U32(1, 0) -> "InternalToAsic"
                   [] WireU32(arg.bytes, 4) = U32(5, 0) -> "OnboardOther"
                   [] OTHER -> "Unknown")
    /\ Returned("OcsdDeviceHeader::from_bytes") =>
          /\ IsOk(ret)
          /\ ret.val.version = (IF arg.bytes[1] = 1 THEN "Version1" ELSE "Unknown")
    /\ Returned("OcsdHeader::from_bytes") =>
          /\ IsOk(ret)
          /\ ret.val.ocsd_version = (IF arg.bytes[1] = 2 THEN "Version2" ELSE "Unknown")

\* C16: in a context that construction has returned, read of a device
\* always returns a decoded device: the buffer of one_option_card_size
\* bytes that it hands to OcsdDevice::from_bytes is never too short.
C16_ReadDeviceDecodes ==
    (op = "OcsdDeviceContext::read" /\ pc # "call") => IsOk(ret)

===========================================================================
